---------------------------- MODULE Spec2Model ----------------------------
(***************************************************************************)
(* Composite-wall heat-flow calculator (heat_flow_calc.py).                *)
(*                                                                         *)
(* The program is a single-threaded Tk application.  Its state is the      *)
(* global list `layers`, the five boundary Entry widgets, the StringVar    *)
(* `results`, and, while "Add Parallel Layer" runs, the locals of          *)
(* add_parallel_layer together with the modal path dialog.  Every button   *)
(* or key handler is one action.                                           *)
(*                                                                         *)
(* Python floats are modelled as exact rationals plus NaN: float() accepts *)
(* the text "nan", every ordering comparison with NaN is False, and a      *)
(* float division by zero raises ZeroDivisionError.  Rounding error of     *)
(* binary floating point is not modelled.                                  *)
(***************************************************************************)
EXTENDS Integers, Sequences, FiniteSets, TLC

(***************************************************************************)
(* Float values                                                            *)
(***************************************************************************)
RECURSIVE Gcd(_, _)
Gcd(a, b) == IF b = 0 THEN a ELSE Gcd(b, a % b)

AbsInt(n) == IF n < 0 THEN -n ELSE n

Lowest(n, d, g) ==
    [k |-> "fin", n |-> (IF d < 0 THEN -n ELSE n) \div g, d |-> AbsInt(d) \div g]

\* The rational n/d in lowest terms with a positive denominator.
Fin(n, d) == Lowest(n, d, Gcd(AbsInt(n), AbsInt(d)))

NaN == [k |-> "nan", n |-> 0, d |-> 1]

Zero == [k |-> "fin", n |-> 0, d |-> 1]
One == [k |-> "fin", n |-> 1, d |-> 1]
Hundred == [k |-> "fin", n |-> 100, d |-> 1]

IsNaN(a) == a.k = "nan"
IsZero(a) == a.k = "fin" /\ a.n = 0

FAdd(a, b) == IF IsNaN(a) \/ IsNaN(b) THEN NaN
              ELSE Fin(a.n * b.d + b.n * a.d, a.d * b.d)
FSub(a, b) == IF IsNaN(a) \/ IsNaN(b) THEN NaN
              ELSE Fin(a.n * b.d - b.n * a.d, a.d * b.d)
FMul(a, b) == IF IsNaN(a) \/ IsNaN(b) THEN NaN
              ELSE Fin(a.n * b.n, a.d * b.d)
\* a / b for a divisor that is not zero (a zero divisor raises, see Div).
FDiv(a, b) == IF IsNaN(a) \/ IsNaN(b) THEN NaN
              ELSE Fin(a.n * b.d, a.d * b.n)
FAbs(a) == IF IsNaN(a) THEN NaN ELSE [a EXCEPT !.n = AbsInt(a.n)]

\* Ordering comparisons: False whenever an operand is NaN.
FLt(a, b) == ~IsNaN(a) /\ ~IsNaN(b) /\ a.n * b.d < b.n * a.d
FLe(a, b) == ~IsNaN(a) /\ ~IsNaN(b) /\ a.n * b.d <= b.n * a.d
FGt(a, b) == FLt(b, a)

\* Python's a / b on floats: [raised, v]; raised stands for
\* ZeroDivisionError.
Div(a, b) == IF IsZero(b) THEN [raised |-> TRUE, v |-> NaN]
             ELSE [raised |-> FALSE, v |-> FDiv(a, b)]

RECURSIVE Pow10(_)
Pow10(k) == IF k = 0 THEN 1 ELSE 10 * Pow10(k - 1)

\* Long division: the next k decimal digits of rem/d, and what remains.
RECURSIVE Digits(_, _, _, _)
Digits(rem, d, k, acc) ==
    IF k = 0 THEN [q |-> acc, rem |-> rem]
    ELSE Digits((rem * 10) % d, d, k - 1, acc * 10 + (rem * 10) \div d)

\* Round to nearest, ties to even: lo is the scaled value rounded down, rem
\* of d what the division left.
RoundHalfEven(lo, rem, d) ==
    IF 2 * rem > d THEN lo + 1
    ELSE IF 2 * rem < d THEN lo
    ELSE IF lo % 2 = 0 THEN lo ELSE lo + 1

Rounded(fl, t, d, p) == Fin(RoundHalfEven(fl * p + t.q, t.rem, d), p)

FormatDigits(x, k, fl) ==
    Rounded(fl, Digits(x.n - fl * x.d, x.d, k, 0), x.d, Pow10(k))

\* format(x, ".<k>f"): x rounded to k decimals, ties to even; "nan" for NaN.
FormatF(x, k) == IF IsNaN(x) THEN NaN ELSE FormatDigits(x, k, x.n \div x.d)

(***************************************************************************)
(* Text typed into the widgets                                             *)
(***************************************************************************)
\* str.strip() on the texts the model types.
Strip(s) == IF s = " " THEN "" ELSE s

\* The decimal literals the model types, with their values.
DecimalValue ==
    [s \in {"0", "-1", "2", "4", "20", "50", "70", "100", "0.17", "0.68"} |->
        CASE s = "0"    -> Fin(0, 1)
          [] s = "-1"   -> Fin(-1, 1)
          [] s = "2"    -> Fin(2, 1)
          [] s = "4"    -> Fin(4, 1)
          [] s = "20"   -> Fin(20, 1)
          [] s = "50"   -> Fin(50, 1)
          [] s = "70"   -> Fin(70, 1)
          [] s = "100"  -> Fin(100, 1)
          [] s = "0.17" -> Fin(17, 100)
          [] s = "0.68" -> Fin(68, 100)]

\* float(s): [ok, v]; ok = FALSE stands for ValueError.  float("nan") is NaN.
ParseFloat(s) ==
    IF s \in DOMAIN DecimalValue THEN [ok |-> TRUE, v |-> DecimalValue[s]]
    ELSE IF s = "nan" THEN [ok |-> TRUE, v |-> NaN]
    ELSE [ok |-> FALSE, v |-> NaN]

\* int(s): [ok, v]; a decimal point, letters and the empty text are ValueError.
ParseInt(s) ==
    CASE s = "-1" -> [ok |-> TRUE, v |-> -1]
      [] s = "0"  -> [ok |-> TRUE, v |-> 0]
      [] s = "1"  -> [ok |-> TRUE, v |-> 1]
      [] s = "2"  -> [ok |-> TRUE, v |-> 2]
      [] s = "3"  -> [ok |-> TRUE, v |-> 3]
      [] OTHER    -> [ok |-> FALSE, v |-> 0]

(***************************************************************************)
(* material_r_values.py                                                    *)
(***************************************************************************)
materials_r_values ==
    ("1/2-inch Drywall (R=0.45)" :> Fin(45, 100)) @@
    ("5/8-inch Drywall (R=0.56)" :> Fin(56, 100)) @@
    ("1/2-inch Plywood (R=0.63)" :> Fin(63, 100)) @@
    ("3/4-inch Plywood (R=0.94)" :> Fin(94, 100)) @@
    ("1/2-inch OSB (R=0.50)" :> Fin(50, 100)) @@
    ("3/4-inch Solid Wood (Pine) (R=0.81)" :> Fin(81, 100)) @@
    ("1-inch Solid Wood (Pine) (R=1.25)" :> Fin(125, 100)) @@
    ("1/2-inch Cement Board (R=0.20)" :> Fin(20, 100)) @@
    ("8-inch Concrete Block (unfilled) (R=1.11)" :> Fin(111, 100)) @@
    ("8-inch Concrete Block (foam filled) (R=2.00)" :> Fin(2, 1)) @@
    ("8-inch Reinforced Concrete (R=1.20)" :> Fin(120, 100)) @@
    ("3.5-inch Fiberglass Batt (R=13.00)" :> Fin(13, 1)) @@
    ("6-inch Fiberglass Batt (R=19.00)" :> Fin(19, 1)) @@
    ("8-inch Fiberglass Batt (R=25.00)" :> Fin(25, 1)) @@
    ("8-inch Cellulose (Loose-Fill) (R=24.00)" :> Fin(24, 1)) @@
    ("1-inch Extruded Polystyrene (XPS) (R=5.00)" :> Fin(5, 1)) @@
    ("2-inch Extruded Polystyrene (XPS) (R=10.00)" :> Fin(10, 1)) @@
    ("1-inch Expanded Polystyrene (EPS) (R=4.00)" :> Fin(4, 1)) @@
    ("2-inch Expanded Polystyrene (EPS) (R=8.00)" :> Fin(8, 1)) @@
    ("1-inch Polyiso Foam Board (R=6.50)" :> Fin(650, 100)) @@
    ("2-inch Polyiso Foam Board (R=13.00)" :> Fin(13, 1))


(***************************************************************************)
(* Bounds and the texts the user types                                     *)
(***************************************************************************)
\* The longest layer list the model builds.
MaxLayers == 2

\* Texts typed into the boundary entries (each entry starts empty).
BoundaryTexts ==
    [t_inside       |-> {"", "70"},
     t_outside      |-> {"", "20"},
     r_inside_film  |-> {"", "0", "-1", "0.68"},
     r_outside_film |-> {"", "0"},
     wall_area      |-> {"", "100"}]
Fields == DOMAIN BoundaryTexts

ConcreteBlock == "8-inch Concrete Block (unfilled) (R=1.11)"

\* Series row: the R-value entry and the (editable) material combobox.
SeriesTyped == {"", " ", "abc", "0", "-1", "2", "nan"}
SeriesMaterials == {"None", ConcreteBlock, "Unobtainium"}

\* "Number of Paths" entry.
NumPathsTexts == {"", "0", "-1", "1", "2"}

\* Path dialog: R-value entry, material combobox, area entry.
PathTyped == {"", "0", "4"}
PathMaterials == {"None", "Unobtainium"}
PathAreas == {"", "0", "nan", "50", "100"}

\* Indexes handed to confirm_delete_layer.
DeleteIndexes == -1 .. MaxLayers

(***************************************************************************)
(* State                                                                   *)
(***************************************************************************)
VARIABLES
    layers,           \* the global list of layers
    entries,          \* text of the five boundary Entry widgets
    results,          \* the StringVar shown in the results label
    last_calc,        \* locals of the latest calculate_heat_transfer call
    report,           \* what the latest handler showed: a message box, or
                      \* the exception that ended it
    pc,               \* "main", or "dialog" while a path dialog is open
    num_paths,        \* add_parallel_layer: num_paths
    paths,            \* add_parallel_layer: paths
    total_area_used   \* add_parallel_layer: total_area_used

vars == <<layers, entries, results, last_calc, report, pc, num_paths, paths,
          total_area_used>>
wizard == <<pc, num_paths, paths, total_area_used>>

SeriesLayer(r, m) ==
    [type |-> "series", r_value |-> r, material |-> m, paths |-> <<>>]
ParallelLayer(ps) ==
    [type |-> "parallel", r_value |-> Zero, material |-> "", paths |-> ps]
Path(r, a, m) == [r_value |-> r, area_percent |-> a, material |-> m]

(***************************************************************************)
(* calculate_heat_transfer                                                 *)
(***************************************************************************)
\* acc + t, where either may have raised.
Plus(acc, t) ==
    [raised |-> acc.raised \/ t.raised, v |-> FAdd(acc.v, t.v)]

\* Mutant of PathConductance: the area percentage is not brought to a
\* fraction.
PathConductance_NoPercent(path) == Div(path.area_percent, path.r_value)

\* Line 46: (area_pct / 100) / r_val.
PathConductance(path) ==
    Div(FDiv(path.area_percent, Hundred), path.r_value)

\* Lines 42-46: parallel_resistance after the paths from index i on.
RECURSIVE PathLoop(_, _, _)
PathLoop(ps, i, acc) ==
    IF i > Len(ps) \/ acc.raised THEN acc
    ELSE PathLoop(ps, i + 1, Plus(acc, PathConductance(ps[i])))

\* Line 47: 1 / parallel_resistance.
Reciprocal(c) == IF c.raised THEN c ELSE Div(One, c.v)

ParallelTerm(ps) ==
    Reciprocal(PathLoop(ps, 1, [raised |-> FALSE, v |-> Zero]))

\* Lines 38-47: what one layer adds to total_resistance.
LayerTerm(layer) ==
    IF layer.type = "series" THEN [raised |-> FALSE, v |-> layer.r_value]
    ELSE ParallelTerm(layer.paths)

\* Lines 37-47: total_resistance after the layers from index i on.
RECURSIVE LayerLoop(_, _, _)
LayerLoop(ls, i, acc) ==
    IF i > Len(ls) \/ acc.raised THEN acc
    ELSE LayerLoop(ls, i + 1, Plus(acc, LayerTerm(ls[i])))

\* Lines 33-47: [raised, v], v the total resistance.
TotalResistance(r_inside_film, r_outside_film, ls) ==
    LayerLoop(ls, 1, [raised |-> FALSE, v |-> FAdd(r_inside_film, r_outside_film)])

NoCalc == [status |-> "none", looped |-> FALSE, total_resistance |-> NaN,
           u_value |-> NaN, q_per_ft2 |-> NaN, q_total |-> NaN]

\* Lines 50-52, given total_resistance tr and q = Div(t_outside - t_inside, tr).
Quantities(tr, q, wall_area) ==
    IF q.raised
    THEN [NoCalc EXCEPT !.status = "ZeroDivisionError", !.looped = TRUE,
                        !.total_resistance = tr]
    ELSE [status |-> "ok", looped |-> TRUE, total_resistance |-> tr,
          u_value |-> FDiv(One, tr), q_per_ft2 |-> q.v,
          q_total |-> FMul(q.v, wall_area)]

\* Lines 49-52, given the outcome tr of the layer loop.
AfterLoop(tr, t_inside, t_outside, wall_area) ==
    IF tr.raised THEN [NoCalc EXCEPT !.status = "ZeroDivisionError"]
    ELSE Quantities(tr.v, Div(FSub(t_outside, t_inside), tr.v), wall_area)

\* Lines 27-52, given float() of the five entries.
Calculated(ls, ti, to, ri, ro, wa) ==
    IF ~(ti.ok /\ to.ok /\ ri.ok /\ ro.ok /\ wa.ok)
    THEN [NoCalc EXCEPT !.status = "ValueError"]
    ELSE AfterLoop(TotalResistance(ri.v, ro.v, ls), ti.v, to.v, wa.v)

\* The locals the call ends with.  status is "ok", "ValueError" (caught) or
\* "ZeroDivisionError" (not caught: it leaves the function); looped says
\* that the layer loop finished, so that total_resistance is its result.
calculate_heat_transfer(ls, e) ==
    Calculated(ls, ParseFloat(e.t_inside), ParseFloat(e.t_outside),
               ParseFloat(e.r_inside_film), ParseFloat(e.r_outside_film),
               ParseFloat(e.wall_area))

EmptyResults == [kind |-> "empty", r |-> NaN, u |-> NaN, q |-> NaN, qt |-> NaN]
InvalidResults == [EmptyResults EXCEPT !.kind = "invalid"]

\* Lines 55-62: the text results.set() leaves, given what it showed before.
ResultsAfter(c, old) ==
    CASE c.status = "ok" ->
            [kind |-> "values",
             r  |-> FormatF(c.total_resistance, 2),
             u  |-> FormatF(c.u_value, 4),
             q  |-> FormatF(c.q_per_ft2, 1),
             qt |-> FormatF(c.q_total, 1)]
      [] c.status = "ValueError" -> InvalidResults
      [] OTHER -> old

(***************************************************************************)
(* Message boxes and uncaught exceptions                                   *)
(***************************************************************************)
\* kind: "none", "showerror", "showinfo", "askyesno" or "exception"; quoted
\* is the number the message quotes (an area formatted "%.2f", the layer
\* number of the delete question), else zero.
Report(kind, text, quoted) == [kind |-> kind, text |-> text, quoted |-> quoted]
NoReport == Report("none", "", Zero)
ShowError(text) == Report("showerror", text, Zero)
Uncaught(exc) == Report("exception", exc, Zero)

\* The call left the locals c, in a handler that showed `shown`: an
\* uncaught ZeroDivisionError ends the handler and leaves `results` alone.
Calculate(c, shown) ==
    /\ last_calc' = c
    /\ results' = ResultsAfter(c, results)
    /\ report' = IF c.status = "ZeroDivisionError"
                 THEN Uncaught("ZeroDivisionError") ELSE shown

\* calculate_heat_transfer() on the list ls and the entry texts e.
Recalculate(ls, e, shown) == Calculate(calculate_heat_transfer(ls, e), shown)

Init ==
    /\ layers = <<>>
    /\ entries = [f \in Fields |-> ""]
    /\ results = EmptyResults
    /\ last_calc = NoCalc
    /\ report = NoReport
    /\ pc = "main"
    /\ num_paths = 0
    /\ paths = <<>>
    /\ total_area_used = Zero

\* Lines 65-67 and 448: a key released in a boundary entry.
auto_update ==
    /\ pc = "main"
    /\ \E f \in Fields : \E s \in BoundaryTexts[f] :
          /\ entries' = [entries EXCEPT ![f] = s]
          /\ Recalculate(layers, entries', NoReport)
    /\ UNCHANGED <<layers, wizard>>

(***************************************************************************)
(* Series layers                                                           *)
(***************************************************************************)
Rejected(text) ==
    [ok |-> FALSE, text |-> text, r_value |-> NaN, material |-> ""]
Accepted(r, m) ==
    [ok |-> TRUE, text |-> "", r_value |-> r, material |-> m]

\* Lines 112-128, given the stripped texts and val = float(typed_str).
SeriesChoice(typed_str, selected_mat, val) ==
    IF typed_str # ""
    THEN IF ~val.ok \/ FLe(val.v, Zero)
         THEN Rejected("Please enter a positive numeric R-value.")
         ELSE Accepted(val.v, "Custom R-value")
    ELSE IF selected_mat # "None" /\ selected_mat \in DOMAIN materials_r_values
         THEN Accepted(materials_r_values[selected_mat], selected_mat)
         ELSE Rejected("Please type an R-value or select a material.")

\* Lines 109-128: the R-value and material add_series_layer settles on.
SeriesSource(typed, selected) ==
    SeriesChoice(Strip(typed), Strip(selected), ParseFloat(Strip(typed)))

\* Mutant of SeriesAdded: the layer is appended before the source is
\* checked.
SeriesAdded_AppendFirst(src) ==
    /\ layers' = Append(layers, SeriesLayer(src.r_value, src.material))
    /\ IF src.ok
       THEN Recalculate(layers', entries, NoReport)
       ELSE /\ report' = ShowError(src.text)
            /\ UNCHANGED <<results, last_calc>>

\* Lines 119-121, 126-141: the handler's end, given the source src.
SeriesAdded(src) ==
    IF src.ok
    THEN /\ layers' = Append(layers, SeriesLayer(src.r_value, src.material))
         /\ Recalculate(layers', entries, NoReport)
    ELSE /\ report' = ShowError(src.text)
         /\ UNCHANGED <<layers, results, last_calc>>

\* Lines 102-141: the "Add Series Layer" button, with the two texts it reads.
add_series(typed, selected) ==
    /\ pc = "main"
    /\ Len(layers) < MaxLayers
    /\ SeriesAdded(SeriesSource(typed, selected))
    /\ UNCHANGED <<entries, wizard>>

add_series_layer ==
    \E typed \in SeriesTyped, selected \in SeriesMaterials :
        add_series(typed, selected)

(***************************************************************************)
(* Parallel layers                                                         *)
(***************************************************************************)
\* The 1e-6 of lines 176 and 296.
Tolerance == [k |-> "fin", n |-> 1, d |-> 1000000]

\* Line 203.
AreaLeft(area_used_so_far) == FSub(Hundred, area_used_so_far)

PathRejected(text, area_left) ==
    [ok |-> FALSE, text |-> text, left |-> area_left,
     r_value |-> NaN, area |-> NaN, material |-> ""]
PathAccepted(r, a, m) ==
    [ok |-> TRUE, text |-> "", left |-> Zero,
     r_value |-> r, area |-> a, material |-> m]

\* Lines 262-277, given the stripped texts and rv = float(typed_str).
PathChoice(typed_str, sel_mat, rv) ==
    IF typed_str # ""
    THEN IF ~rv.ok \/ FLe(rv.v, Zero)
         THEN Rejected("Please enter a positive numeric R-value.")
         ELSE Accepted(rv.v, "Custom R-value")
    ELSE IF sel_mat # "None" /\ sel_mat \in DOMAIN materials_r_values
         THEN Accepted(materials_r_values[sel_mat], sel_mat)
         ELSE Rejected("Please type an R-value or select a material.")

\* Lines 259-277: the R-value and material of the path.
PathSource(typed, selected) ==
    PathChoice(Strip(typed), Strip(selected), ParseFloat(Strip(typed)))

\* Lines 287-302: whether the area a_val passes, given the area left.
AreaFits(a_val, area_left, last_path) ==
    IF ~last_path
    THEN ~FGt(a_val, area_left)
    ELSE ~FGt(FAbs(FSub(a_val, area_left)), Tolerance)

\* Lines 258-307, given the source src and a_val = float(area text).
Checked(src, a_val, area_left, last_path) ==
    IF ~src.ok THEN PathRejected(src.text, Zero)
    ELSE IF ~a_val.ok \/ FLe(a_val.v, Zero)
    THEN PathRejected("Please enter a positive area percent.", Zero)
    ELSE IF ~AreaFits(a_val.v, area_left, last_path)
    THEN PathRejected(IF last_path THEN "Last path must use exactly"
                                   ELSE "exceeds the remaining",
                      FormatF(area_left, 2))
    ELSE PathAccepted(src.r_value, a_val.v, src.material)

\* Lines 258-307: the dialog's OK button.
on_ok(typed, selected, area, area_used_so_far, last_path) ==
    Checked(PathSource(typed, selected), ParseFloat(Strip(area)),
            AreaLeft(area_used_so_far), last_path)

\* Lines 154-163: the "Add Parallel Layer" button, up to the first dialog.
Started(n) ==
    IF ~n.ok \/ n.v <= 0
    THEN /\ report' = ShowError("Please enter a valid positive integer for # of parallel paths.")
         /\ UNCHANGED wizard
    ELSE /\ pc' = "dialog"
         /\ num_paths' = n.v
         /\ paths' = <<>>
         /\ total_area_used' = Zero
         /\ report' = NoReport

add_parallel_layer ==
    /\ pc = "main"
    /\ Len(layers) < MaxLayers
    /\ \E text \in NumPathsTexts : Started(ParseInt(text))
    /\ UNCHANGED <<layers, entries, results, last_calc>>

\* add_parallel_layer returns, or an exception ends it.
WizardDone ==
    /\ pc' = "main"
    /\ num_paths' = 0
    /\ paths' = <<>>
    /\ total_area_used' = Zero

\* Lines 176-181: the list after the loop over the paths has ended with the
\* local list ps and the total `used`.
CommitLayer(ls, ps, used) ==
    IF FGt(FAbs(FSub(used, Hundred)), Tolerance) THEN ls
    ELSE Append(ls, ParallelLayer(ps))

\* Mutant of PathAdded: the layer is appended to `layers` as soon as its
\* first path is accepted, and again with every further path.
PathAdded_Eager(ps, used) ==
    /\ layers' = Append(layers, ParallelLayer(ps))
    /\ IF Len(ps) < num_paths
       THEN /\ paths' = ps
            /\ total_area_used' = used
            /\ UNCHANGED <<pc, num_paths>>
       ELSE WizardDone
    /\ Recalculate(layers', entries, NoReport)

\* Lines 173-185: a path was accepted; ps and used are the local list and
\* total with it.
PathAdded(ps, used) ==
    IF Len(ps) < num_paths
    THEN /\ paths' = ps
         /\ total_area_used' = used
         /\ report' = NoReport
         /\ UNCHANGED <<layers, results, last_calc, pc, num_paths>>
    ELSE /\ layers' = CommitLayer(layers, ps, used)
         /\ WizardDone
         /\ IF layers' = layers
            THEN /\ report' = Report("showerror", "It must sum to exactly 100%.",
                                     FormatF(used, 2))
                 /\ UNCHANGED <<results, last_calc>>
            ELSE Recalculate(layers', entries, NoReport)

\* The outcome o of on_ok: a rejected path keeps the dialog open.
PathTried(o) ==
    IF ~o.ok
    THEN /\ report' = Report("showerror", o.text, o.left)
         /\ UNCHANGED <<layers, results, last_calc, wizard>>
    ELSE PathAdded(Append(paths, Path(o.r_value, o.area, o.material)),
                   FAdd(total_area_used, o.area))

\* The dialog's OK button, and with it the rest of add_parallel_layer's
\* loop (lines 165-185): an accepted path is appended to the local list,
\* and then either the next dialog opens or the loop ends and the layer is
\* committed.
path_submit(typed, selected, area) ==
    /\ pc = "dialog"
    /\ PathTried(on_ok(typed, selected, area, total_area_used,
                       Len(paths) = num_paths - 1))
    /\ UNCHANGED entries

path_ok ==
    \E typed \in PathTyped, selected \in PathMaterials, area \in PathAreas :
        path_submit(typed, selected, area)

\* The dialog closed without OK: prompt_parallel_path returns
\* (None, None, "Custom R-value") (lines 256, 311-313) and line 174 adds
\* None to a float, a TypeError that ends add_parallel_layer.
path_closed ==
    /\ pc = "dialog"
    /\ WizardDone
    /\ report' = Uncaught("TypeError")
    /\ UNCHANGED <<layers, entries, results, last_calc>>

(***************************************************************************)
(* Removing layers                                                         *)
(***************************************************************************)
\* Lines 319-326: the "Delete Last Layer" button.
delete_last_layer ==
    /\ pc = "main"
    /\ IF layers # <<>>
       THEN /\ layers' = SubSeq(layers, 1, Len(layers) - 1)
            /\ Recalculate(layers', entries, NoReport)
       ELSE /\ report' = Report("showinfo", "No layers to delete.", Zero)
            /\ UNCHANGED <<layers, results, last_calc>>
    /\ UNCHANGED <<entries, wizard>>

\* del ls[i] for an index i that is in the list, counted from 0.
Without(ls, i) == SubSeq(ls, 1, i) \o SubSeq(ls, i + 2, Len(ls))

\* Python's del ls[index]: [raised, v]; a negative index counts from the
\* end, an index outside -len .. len-1 raises IndexError.
DelItem(ls, index) ==
    IF index < -Len(ls) \/ index >= Len(ls) THEN [raised |-> TRUE, v |-> ls]
    ELSE [raised |-> FALSE,
          v |-> Without(ls, IF index < 0 THEN index + Len(ls) ELSE index)]

\* Line 330: "Are you sure you want to delete layer {index + 1}?"
AskYesNo(index) ==
    Report("askyesno", "Are you sure you want to delete layer", Fin(index + 1, 1))

\* Lines 331-334, given the outcome d of del layers[index].
Deleted(d, index) ==
    IF d.raised
    THEN /\ report' = Uncaught("IndexError")
         /\ UNCHANGED <<layers, results, last_calc>>
    ELSE /\ layers' = d.v
         /\ Recalculate(layers', entries, AskYesNo(index))

\* Lines 328-334: a layer's "X" button.
confirm_delete_layer(index) ==
    /\ pc = "main"
    /\ \E response \in BOOLEAN :
          IF ~response
          THEN /\ report' = AskYesNo(index)
               /\ UNCHANGED <<layers, results, last_calc>>
          ELSE Deleted(DelItem(layers, index), index)
    /\ UNCHANGED <<entries, wizard>>

Next ==
    \/ auto_update
    \/ add_series_layer
    \/ add_parallel_layer
    \/ path_ok
    \/ path_closed
    \/ delete_last_layer
    \/ \E index \in DeleteIndexes : confirm_delete_layer(index)

Spec == Init /\ [][Next]_vars

(***************************************************************************)
(* The calculation on its own: any stored layer list, any film texts       *)
(***************************************************************************)
FiberglassBatt == "3.5-inch Fiberglass Batt (R=13.00)"
Xps1 == "1-inch Extruded Polystyrene (XPS) (R=5.00)"
Xps2 == "2-inch Extruded Polystyrene (XPS) (R=10.00)"
Eps1 == "1-inch Expanded Polystyrene (EPS) (R=4.00)"

Eighty == [k |-> "fin", n |-> 80, d |-> 1]
Fifty  == [k |-> "fin", n |-> 50, d |-> 1]
Thirty == [k |-> "fin", n |-> 30, d |-> 1]
Twenty == [k |-> "fin", n |-> 20, d |-> 1]

\* Paths the dialog accepts: a material of the table, or a typed value.
StoredPath(key, a) == Path(materials_r_values[key], a, key)
TypedPath(r, a) == Path(r, a, "Custom R-value")

\* Layers add_series_layer and add_parallel_layer store.
StoredLayers ==
    { SeriesLayer(materials_r_values[ConcreteBlock], ConcreteBlock),
      SeriesLayer(materials_r_values[FiberglassBatt], FiberglassBatt),
      SeriesLayer(NaN, "Custom R-value"),
      ParallelLayer(<<StoredPath(FiberglassBatt, Hundred)>>),
      ParallelLayer(<<StoredPath(Xps2, Eighty), StoredPath(Xps1, Twenty)>>),
      ParallelLayer(<<StoredPath(Eps1, Fifty), TypedPath(Fin(8, 1), Fifty)>>),
      ParallelLayer(<<TypedPath(Fin(2, 1), Twenty), StoredPath(Xps1, Fifty),
                      StoredPath(Xps2, Thirty)>>) }

RECURSIVE ListsUpTo(_)
ListsUpTo(n) ==
    IF n = 0 THEN {<<>>}
    ELSE ListsUpTo(n - 1) \cup
         {Append(l, x) : l \in {m \in ListsUpTo(n - 1) : Len(m) = n - 1},
                         x \in StoredLayers}

CalcEntries ==
    {[t_inside |-> "70", t_outside |-> "20", r_inside_film |-> fi,
      r_outside_film |-> fo, wall_area |-> "100"] :
        fi \in {"0", "-1", "0.68"}, fo \in {"0", "0.17", "abc"}}

InitCalc ==
    /\ layers \in ListsUpTo(MaxLayers)
    /\ entries \in CalcEntries
    /\ results = EmptyResults
    /\ last_calc = NoCalc
    /\ report = NoReport
    /\ pc = "main"
    /\ num_paths = 0
    /\ paths = <<>>
    /\ total_area_used = Zero

\* Lines 65-67: a key released in a boundary entry without changing it.
key_released ==
    /\ pc = "main"
    /\ Recalculate(layers, entries, NoReport)
    /\ UNCHANGED <<layers, entries, wizard>>

SpecCalc == InitCalc /\ [][key_released]_vars

(***************************************************************************)
(* Properties                                                              *)
(***************************************************************************)
FilmIn  == ParseFloat(entries.r_inside_film).v
FilmOut == ParseFloat(entries.r_outside_film).v

\* |a - b| <= tol; False when one of them is NaN.
Within(a, b, tol) == FLe(FAbs(FSub(a, b)), tol)

RECURSIVE SeriesSum(_)
SeriesSum(ls) ==
    IF ls = <<>> THEN Zero
    ELSE FAdd(IF Head(ls).type = "series" THEN Head(ls).r_value ELSE Zero,
              SeriesSum(Tail(ls)))

\* Sum over the paths of (areaPercent/100)/rValue.
RECURSIVE Shares(_)
Shares(ps) ==
    IF ps = <<>> THEN Zero
    ELSE FAdd(FDiv(FDiv(Head(ps).area_percent, Hundred), Head(ps).r_value),
              Shares(Tail(ps)))

RECURSIVE ParallelSum(_)
ParallelSum(ls) ==
    IF ls = <<>> THEN Zero
    ELSE FAdd(IF Head(ls).type = "parallel"
              THEN FDiv(One, Shares(Head(ls).paths)) ELSE Zero,
              ParallelSum(Tail(ls)))

RECURSIVE AreaSum(_)
AreaSum(ps) ==
    IF ps = <<>> THEN Zero ELSE FAdd(Head(ps).area_percent, AreaSum(Tail(ps)))

ParallelIndexes == {i \in 1 .. Len(layers) : layers[i].type = "parallel"}
SeriesIndexes == {i \in 1 .. Len(layers) : layers[i].type = "series"}

\* C1: whenever calculate_heat_transfer has run its layer loop, the total
\* resistance it holds is filmIn + filmOut + the sum of the series layers'
\* R-values + the sum over the parallel layers of
\* 1 / (sum over the layer's paths of (areaPercent/100)/rValue).
C1_TotalResistance ==
    last_calc.looped =>
        last_calc.total_resistance =
            FAdd(FAdd(FAdd(FilmIn, FilmOut), SeriesSum(layers)),
                 ParallelSum(layers))

\* C1 witness: a total computed over a series layer and a parallel layer
\* whose two paths differ in R-value and in area.
C1_Witness ==
    /\ last_calc.status = "ok"
    /\ ~IsNaN(last_calc.total_resistance)
    /\ SeriesIndexes # {}
    /\ \E i \in ParallelIndexes :
          /\ Len(layers[i].paths) = 2
          /\ layers[i].paths[1].r_value # layers[i].paths[2].r_value
          /\ layers[i].paths[1].area_percent # layers[i].paths[2].area_percent

\* C2: adding a parallel layer is atomic.  No step that opens a path dialog
\* or leaves one open changes the layer list; a rejected path and a dialog
\* closed without OK change nothing; and the only step of the wizard that
\* changes the list is the one accepting path n of n, which appends exactly
\* one parallel layer made of the n-1 paths accepted before and one more.
C2_ParallelAtomic ==
    [][/\ pc' = "dialog" => layers' = layers
       /\ pc = "dialog" =>
            \/ layers' = layers
            \/ /\ Len(paths) = num_paths - 1
               /\ pc' = "main"
               /\ report'.kind # "showerror"
               /\ report' # Uncaught("TypeError")
               /\ Len(layers') = Len(layers) + 1
               /\ SubSeq(layers', 1, Len(layers)) = layers
               /\ layers'[Len(layers')].type = "parallel"
               /\ Len(layers'[Len(layers')].paths) = num_paths
               /\ SubSeq(layers'[Len(layers')].paths, 1, num_paths - 1) = paths
      ]_vars

\* C2 witness: a two-path layer has been committed after a one-path layer,
\* the wizard is closed again.
C2_Witness ==
    /\ pc = "main"
    /\ report = NoReport
    /\ Len(layers) = 2
    /\ layers[1].type = "parallel" /\ Len(layers[1].paths) = 1
    /\ layers[2].type = "parallel" /\ Len(layers[2].paths) = 2

\* C3: every parallel layer of the list has at least one path, and its
\* paths' area percentages sum to 100 within 1e-6.
C3_AreasSumTo100 ==
    \A i \in ParallelIndexes :
        /\ Len(layers[i].paths) >= 1
        /\ Within(AreaSum(layers[i].paths), Hundred, Tolerance)

\* C4: every R-value stored in the list, of a series layer or of a path of
\* a parallel layer, is strictly positive.
C4_RValuesPositive ==
    /\ \A i \in SeriesIndexes : FGt(layers[i].r_value, Zero)
    /\ \A i \in ParallelIndexes :
          \A j \in 1 .. Len(layers[i].paths) :
              FGt(layers[i].paths[j].r_value, Zero)

\* C5: a step that ends in an error or information box (add series with bad
\* or missing input, a rejected path, a bad path count, remove-last on an
\* empty list) leaves the layer list as it was, and so does every step that
\* edits a boundary entry and recomputes, whatever the recomputation ends
\* in.
C5_FailureKeepsLayers ==
    [][/\ report'.kind \in {"showerror", "showinfo"} => layers' = layers
       /\ entries' # entries => layers' = layers
      ]_vars

\* C5 witness: an error box was shown while the list held a layer and a
\* recomputation over it had ended in the invalid-input message.
C5_Witness ==
    /\ report.kind = "showerror"
    /\ Len(layers) = 1
    /\ last_calc.status = "ValueError"
    /\ results = InvalidResults

TypedPresent(typed) == Strip(typed) # ""
MaterialPresent(selected) == Strip(selected) # "None"

\* C6: add series layer appends nothing when both a typed R-value and a
\* material are supplied, and nothing when neither is.
C6_ExactlyOneSource ==
    [][\A typed \in SeriesTyped, selected \in SeriesMaterials :
          (/\ TypedPresent(typed) = MaterialPresent(selected)
           /\ add_series(typed, selected))
          => layers' = layers
      ]_vars

\* C7: at the last path of a layer, an area that passed the dialog's
\* "positive area" check, submitted with a valid R-value source, is accepted
\* (and the layer committed) if and only if it equals the remaining area
\* within 1e-6; otherwise the error box quotes the remaining area.
C7_LastPathExact ==
    [][\A typed \in PathTyped, selected \in PathMaterials, area \in PathAreas :
          (/\ pc = "dialog"
           /\ Len(paths) = num_paths - 1
           /\ PathSource(typed, selected).ok
           /\ ParseFloat(Strip(area)).ok
           /\ ~FLe(ParseFloat(Strip(area)).v, Zero)
           /\ path_submit(typed, selected, area))
          => IF Within(ParseFloat(Strip(area)).v, AreaLeft(total_area_used),
                       Tolerance)
             THEN layers' # layers
             ELSE /\ layers' = layers
                  /\ report' = Report("showerror", "Last path must use exactly",
                                      FormatF(AreaLeft(total_area_used), 2))
      ]_vars

\* C8: a recomputation whose total resistance is zero ends in the reported
\* invalid-input condition, not in an exception that leaves the function.
C8_ZeroTotalReported ==
    (last_calc.looped /\ IsZero(last_calc.total_resistance)) =>
        (last_calc.status # "ZeroDivisionError" /\ results.kind = "invalid")

\* C9: whenever a recomputation has produced the four result values, the
\* total resistance is strictly positive.
C9_ResultsHavePositiveTotal ==
    last_calc.status = "ok" => FGt(last_calc.total_resistance, Zero)

C11_WizardCompletable ==
    (/\ pc = "dialog"
     /\ num_paths >= 2
     /\ Len(paths) = num_paths - 1
     /\ \A j \in 1 .. Len(paths) : FGt(paths[j].area_percent, Zero))
    => /\ FGt(AreaLeft(total_area_used), Zero)
       /\ Checked(PathSource("4", "None"),
                  [ok |-> TRUE, v |-> AreaLeft(total_area_used)],
                  AreaLeft(total_area_used), TRUE).ok

\* The text in `results` is what a call that left the locals c sets.
ShowsValuesOf(c) == c.status = "ok" /\ results = ResultsAfter(c, results)

\* C12: the displayed result is never stale.  Whenever the results text
\* shows four values, they are the values calculate_heat_transfer computes
\* from the current layer list and the current boundary entries.
C12_ResultsNeverStale ==
    results.kind = "values" =>
        ShowsValuesOf(calculate_heat_transfer(layers, entries))

=============================================================================
